---------------------------- MODULE Spec2Model ----------------------------
(***************************************************************************)
(* A model of export-kobo.py: one run of main() against a Kobo SQLite      *)
(* store.  The store (tables DbVersion, Bookmark, content) and the command *)
(* line are fixed by Init; every action is one step of main(),             *)
(* ExportKobo.__init__, ExportKobo._query, ExportKobo.list_books or        *)
(* ExportKobo.export_markdown.                                             *)
(*                                                                         *)
(* Conventions.  A Python/SQL value that may be None/NULL is wrapped: Null *)
(* is <<>> and Some(v) is <<v>>.  A string is a sequence of fragments: the *)
(* data strings (texts, labels, titles) are sequences of one-character     *)
(* strings, a literal of the source is one fragment.  Concatenation is \o. *)
(***************************************************************************)
EXTENDS Integers, Sequences, FiniteSets, TLC

(* ------------------------------ bounds -------------------------------- *)

\* Number of rows of the Bookmark table in the ordering and join runs.
MaxBookmarks == 3
\* Largest content.VolumeIndex in the store.
MaxVolumeIndex == 1
\* Largest Bookmark.StartOffset in the store.
MaxOffset == 1
\* Longest Bookmark.Text (characters) in the item runs.
MaxTextLen == 2
\* Longest --colors argument (characters) in the item runs.
MaxColorsLen == 2
\* Largest Bookmark.Color in the item runs.
MaxColor == 4
\* Largest number of books in the catalog runs.
MaxBooks == 2

(* --------------------------- optional values --------------------------- *)

Null == <<>>

Some(v) == <<v>>

\* "x if x is not None else d"
OrDefault(x, d) == IF x = Null THEN d ELSE x[1]

(* ------------------------------- strings ------------------------------- *)

IsSpace(c) == c = " "

RECURSIVE LStrip(_)
LStrip(s) ==
    IF s = <<>> THEN <<>>
    ELSE IF IsSpace(Head(s)) THEN LStrip(Tail(s))
    ELSE s

RECURSIVE RStrip(_)
RStrip(s) ==
    IF s = <<>> THEN <<>>
    ELSE IF IsSpace(s[Len(s)]) THEN RStrip(SubSeq(s, 1, Len(s) - 1))
    ELSE s

\* str.strip()
Strip(s) == RStrip(LStrip(s))

\* str.split(','): the list of the pieces between the commas, never empty.
RECURSIVE SplitAcc(_, _, _)
SplitAcc(s, cur, acc) ==
    IF s = <<>> THEN Append(acc, cur)
    ELSE IF Head(s) = "," THEN SplitAcc(Tail(s), <<>>, Append(acc, cur))
    ELSE SplitAcc(Tail(s), Append(cur, Head(s)), acc)

Split(s) == SplitAcc(s, <<>>, <<>>)

DigitChar == <<"0", "1", "2", "3", "4", "5", "6", "7", "8", "9">>

\* str(n) for an integer n, as f-strings format it.
RECURSIVE NatStr(_)
NatStr(n) ==
    IF n < 10 THEN <<DigitChar[n + 1]>>
    ELSE Append(NatStr(n \div 10), DigitChar[(n % 10) + 1])

IntStr(n) == IF n < 0 THEN <<"-">> \o NatStr(0 - n) ELSE NatStr(n)

\* f"{s:<w}": s padded on the right with spaces to width w, never cut.
PadRight(s, w) ==
    IF Len(s) >= w THEN s ELSE s \o [k \in 1..(w - Len(s)) |-> " "]

\* s[:n]
Take(s, n) == SubSeq(s, 1, IF Len(s) < n THEN Len(s) ELSE n)

\* The characters the store's texts are compared by (ORDER BY c.Title uses the
\* BINARY collation: code point order).
CharCode(c) ==
    CASE c = " " -> 32
      [] c = "A" -> 65
      [] c = "B" -> 66
      [] c = "C" -> 67
      [] OTHER -> 127

RECURSIVE StrLe(_, _)
StrLe(s, t) ==
    IF s = <<>> THEN TRUE
    ELSE IF t = <<>> THEN FALSE
    ELSE IF CharCode(Head(s)) < CharCode(Head(t)) THEN TRUE
    ELSE IF CharCode(Head(s)) > CharCode(Head(t)) THEN FALSE
    ELSE StrLe(Tail(s), Tail(t))

(* ------------------------------ the store ------------------------------ *)

VARIABLES
    argv,            \* the parsed command line (argparse's args)
    db,              \* the store: exists, version, Bookmark, content
    pc,              \* where main() is
    query,           \* the query _query is running, "" outside _query
    conn,            \* connections opened by _query and not closed
    data,            \* what _query returned to its caller
    colors,          \* main's colors: Null or Some(list of labels)
    db_version,      \* ExportKobo.db_version
    books,           \* ExportKobo.books
    book,            \* export_markdown's book
    items,           \* export_markdown's items, after the filter
    chapters,        \* export_markdown's chapters: a dict, in insertion order
    sorted_chapters, \* export_markdown's sorted_chapters
    output,          \* export_markdown's output
    stdout,          \* what was printed to standard output
    stderr,          \* the diagnostics printed to standard error
    exit_code        \* Null while running, Some(code) once the process ended

vars == <<argv, db, pc, query, conn, data, colors, db_version, books, book,
          items, chapters, sorted_chapters, output, stdout, stderr, exit_code>>

\* The joined content columns of a Bookmark row that has no content row.
NoContent ==
    [ContentID |-> Null, Title |-> Null, Attribution |-> Null,
     BookTitle |-> Null, VolumeIndex |-> Null]

\* One row of the items queries, in the SELECT's column order.
ItemRow(b, c) ==
    <<b.VolumeID, b.Text, b.Annotation, b.DateCreated, b.DateModified,
      b.ChapterProgress, c.BookTitle, c.Title, c.Attribution, b.BookmarkID,
      b.StartOffset, c.VolumeIndex, b.Color>>

\* FROM Bookmark b INNER JOIN content c ON b.ContentID = c.ContentID.
\* ContentID is content's primary key, so GROUP BY b.BookmarkID keeps every
\* joined row.
InnerJoinRows ==
    {ItemRow(p[1], p[2]) :
        p \in {q \in db.Bookmark \X db.content : q[1].ContentID = q[2].ContentID}}

\* FROM Bookmark b LEFT JOIN content c ON b.ContentID = c.ContentID.
LeftJoinRows ==
    InnerJoinRows \cup
    {ItemRow(b, NoContent) :
        b \in {x \in db.Bookmark :
                  \A c \in db.content : c.ContentID # x.ContentID}}

\* SQLite's ORDER BY ... ASC on a nullable integer: NULL sorts first.
NullFirstLe(a, b) == a = Null \/ (b # Null /\ a[1] <= b[1])

\* ORDER BY c.VolumeIndex ASC, b.StartOffset ASC
ItemRowLe(r, s) ==
    \/ r[12] # s[12] /\ NullFirstLe(r[12], s[12])
    \/ r[12] = s[12] /\ NullFirstLe(r[11], s[11])

\* The orders in which a query may return the rows S under an ORDER BY whose
\* "not after" pairs are le: rows that compare equal come in any order.
RECURSIVE Orderings(_, _)
Orderings(S, le) ==
    IF S = {} THEN {<<>>}
    ELSE UNION {{<<x>> \o rest : rest \in Orderings(S \ {x}, le)} :
                   x \in {y \in S : \A z \in S : <<y, z>> \in le}}

\* QUERY_ITEMS_V175 with the join of QUERY_ITEMS_V174.
QUERY_ITEMS_V175_LeftJoin ==
    Orderings(LeftJoinRows,
              {p \in LeftJoinRows \X LeftJoinRows : ItemRowLe(p[1], p[2])})

QUERY_ITEMS_V175 ==
    Orderings(InnerJoinRows,
              {p \in InnerJoinRows \X InnerJoinRows : ItemRowLe(p[1], p[2])})

QUERY_ITEMS_V174 ==
    Orderings(LeftJoinRows,
              {p \in LeftJoinRows \X LeftJoinRows : ItemRowLe(p[1], p[2])})

\* SELECT DISTINCT b.VolumeID, c.Title, c.Attribution, (count of the volume's
\* bookmarks) FROM Bookmark b INNER JOIN content c ON b.VolumeID = c.ContentID
BookRows ==
    {<<p[1].VolumeID, p[2].Title, p[2].Attribution,
       Some(Cardinality({b \in db.Bookmark : b.VolumeID = p[1].VolumeID}))>> :
        p \in {q \in db.Bookmark \X db.content : q[1].VolumeID = q[2].ContentID}}

\* ORDER BY c.Title (the titles of the modelled stores are not NULL)
BookRowLe(r, s) == StrLe(r[2][1], s[2][1])

QUERY_BOOKS ==
    Orderings(BookRows, {p \in BookRows \X BookRows : BookRowLe(p[1], p[2])})

\* SELECT version FROM DbVersion;  (db.version is Null when the table is empty)
QUERY_DB_VERSION == {IF db.version = Null THEN <<>> ELSE << <<db.version>> >>}

(* ------------------------------ class Item ----------------------------- *)

ANNOTATION == "annotation"
BOOKMARK == "bookmark"
HIGHLIGHT == "highlight"

\* values[i], with Python's 0-based index
Col(values, i) == values[i + 1]

\* Python's truth value of an optional string
Truthy(x) == x # Null /\ x[1] # <<>>

\* ItemText without the trimming.
ItemTextUntrimmed(values) ==
    IF Truthy(Col(values, 1)) THEN Col(values, 1) ELSE Null

\* self.text = values[1].strip().rstrip() if values[1] else None
ItemText(values) ==
    IF Truthy(Col(values, 1)) THEN Some(RStrip(Strip(Col(values, 1)[1]))) ELSE Null

ItemKind(text, annotation) ==
    IF Truthy(text) /\ Truthy(annotation) THEN ANNOTATION
    ELSE IF Truthy(text) THEN HIGHLIGHT
    ELSE BOOKMARK

\* Item.__init__
Item(values) ==
    [volumeid |-> Col(values, 0),
     text |-> ItemText(values),
     annotation |-> Col(values, 2),
     datecreated |-> OrDefault(Col(values, 3), <<"1970-01-01T00:00:00.000">>),
     chapter_progress |-> OrDefault(Col(values, 5), <<"0">>),
     chapter |-> Col(values, 7),
     start_offset |-> OrDefault(Col(values, 10), 0),
     volume_index |-> OrDefault(Col(values, 11), 0),
     color |-> OrDefault(Col(values, 12), 0),
     kind |-> ItemKind(ItemText(values), Col(values, 2))]

\* f"{x}" of an optional string: None prints as "None".  (ChapterProgress is a
\* REAL: the model keeps a REAL as the string Python prints it as, so the
\* default 0 is "0".)
StrOf(x) == IF x = Null THEN <<"None">> ELSE x[1]

DebugInfo(item) ==
    <<"\n>\n> **Debug:** kind=", item.kind, ", volume_index=">>
    \o IntStr(item.volume_index) \o <<", start_offset=">>
    \o IntStr(item.start_offset) \o <<", chapter_progress=">>
    \o item.chapter_progress \o <<", datecreated=">>
    \o item.datecreated \o <<", color=">> \o IntStr(item.color)

\* ColorPrefix without the "0 <=": Python indexes a negative color from the
\* end of the list.
ColorPrefixAnyIndexBelow(item, cols) ==
    IF cols # Null /\ cols[1] # <<>> /\ item.color < Len(cols[1])
    THEN cols[1][(item.color % Len(cols[1])) + 1] \o <<" ">>
    ELSE <<>>

\* if colors and 0 <= self.color < len(colors): f"{colors[self.color]} "
ColorPrefix(item, cols) ==
    IF cols # Null /\ cols[1] # <<>> /\ 0 <= item.color /\ item.color < Len(cols[1])
    THEN cols[1][item.color + 1] \o <<" ">>
    ELSE <<>>

\* Item.markdown
Markdown(item, debug, cols) ==
    LET debug_info == IF debug THEN DebugInfo(item) ELSE <<>>
        color_prefix == ColorPrefix(item, cols)
    IN  IF item.kind = ANNOTATION
        THEN <<"> ">> \o color_prefix \o StrOf(item.text) \o debug_info
             \o <<"\n\n- ">> \o StrOf(item.annotation) \o <<"\n\n">>
        ELSE IF item.kind = HIGHLIGHT
        THEN <<"> ">> \o color_prefix \o StrOf(item.text) \o debug_info \o <<"\n\n">>
        ELSE <<>>

(* ------------------------------ class Book ----------------------------- *)

\* Book.__init__
Book(values) ==
    [volumeid |-> Col(values, 0), title |-> Col(values, 1),
     author |-> Col(values, 2), itemscount |-> Col(values, 3)]

\* Book.to_markdown
BookToMarkdown(b) ==
    <<"---\ntitle: ">> \o StrOf(b.title) \o <<"\nauthor: ">> \o StrOf(b.author)
    \o <<"\n---\n# \"">> \o StrOf(b.title) \o <<"\" by ">> \o StrOf(b.author)
    \o <<"\n">>

(* ------------------------- dicts and sorting --------------------------- *)

\* A dict is the sequence of its [key, items] entries in insertion order.
KeyIndex(d, k) ==
    IF \E i \in 1..Len(d) : d[i].key = k
    THEN CHOOSE i \in 1..Len(d) : d[i].key = k
    ELSE 0

\* chapters[k]
Lookup(d, k) == d[KeyIndex(d, k)].items

RECURSIVE MinOf(_)
MinOf(s) ==
    IF Len(s) = 1 THEN s[1]
    ELSE LET m == MinOf(Tail(s)) IN IF s[1] <= m THEN s[1] ELSE m

\* Where x goes into the sorted sequence s: after every element whose key is
\* not greater than x's, so that equal keys keep their order.
InsertPos(s, x) ==
    LET le == {i \in 1..Len(s) : s[i].sortkey <= x.sortkey}
    IN  IF le = {} THEN 0 ELSE CHOOSE i \in le : \A j \in le : j <= i

Insert(s, x) ==
    SubSeq(s, 1, InsertPos(s, x)) \o <<x>> \o SubSeq(s, InsertPos(s, x) + 1, Len(s))

\* Python's sort of [sortkey, value] pairs by sortkey: ascending and stable.
RECURSIVE StableSort(_)
StableSort(s) ==
    IF s = <<>> THEN <<>>
    ELSE Insert(StableSort(SubSeq(s, 1, Len(s) - 1)), s[Len(s)])

Values(s) == [i \in 1..Len(s) |-> s[i].value]

(* ----------------------------- export steps ---------------------------- *)

\* for item in items: ... chapters[item.chapter].append(item)
RECURSIVE GroupByChapter(_, _)
GroupByChapter(its, d) ==
    IF its = <<>> THEN d
    ELSE LET item == Head(its)
             d1 == IF KeyIndex(d, item.chapter) = 0
                   THEN Append(d, [key |-> item.chapter, items |-> <<>>])
                   ELSE d
             i == KeyIndex(d1, item.chapter)
         IN  GroupByChapter(Tail(its), [d1 EXCEPT ![i].items = Append(@, item)])

\* min(i.volume_index for i in chapters[ch])
ChapterSortKey(d, ch) ==
    MinOf([i \in 1..Len(Lookup(d, ch)) |-> Lookup(d, ch)[i].volume_index])

\* SortedChapters with max for min.
SortedChaptersByMax(d) ==
    Values(StableSort([i \in 1..Len(d) |->
        [sortkey |-> 0 - MinOf([j \in 1..Len(d[i].items) |->
                                   0 - d[i].items[j].volume_index]),
         value |-> d[i].key]]))

\* sorted(chapters.keys(), key=lambda ch: min(...))
SortedChapters(d) ==
    Values(StableSort([i \in 1..Len(d) |->
        [sortkey |-> ChapterSortKey(d, d[i].key), value |-> d[i].key]]))

\* SortItemsByOffset by a sort that is not stable: equal offsets swap.
SortItemsUnstable(its) ==
    LET n == Len(its)
        sorted == StableSort([i \in 1..n |->
                     [sortkey |-> its[n + 1 - i].start_offset, value |-> its[n + 1 - i]]])
    IN  Values(sorted)

\* SortItemsByOffset with the wrong key.
SortItemsByVolumeIndex(its) ==
    Values(StableSort([i \in 1..Len(its) |->
        [sortkey |-> its[i].volume_index, value |-> its[i]]]))

\* chapters[chapter].sort(key=lambda i: i.start_offset)
SortItemsByOffset(its) ==
    Values(StableSort([i \in 1..Len(its) |->
        [sortkey |-> its[i].start_offset, value |-> its[i]]]))

RECURSIVE RenderItems(_, _, _)
RenderItems(its, debug, cols) ==
    IF its = <<>> THEN <<>>
    ELSE Markdown(Head(its), debug, cols) \o RenderItems(Tail(its), debug, cols)

\* for chapter in sorted_chapters: heading, then every item's markdown
RECURSIVE RenderChapters(_, _, _, _)
RenderChapters(keys, d, debug, cols) ==
    IF keys = <<>> THEN <<>>
    ELSE <<"\n### ">> \o StrOf(Head(keys)) \o <<"\n\n">>
         \o RenderItems(Lookup(d, Head(keys)), debug, cols)
         \o RenderChapters(Tail(keys), d, debug, cols)

\* [i for i in items if i.volumeid == book.volumeid]
RECURSIVE OfVolume(_, _)
OfVolume(its, volumeid) ==
    IF its = <<>> THEN <<>>
    ELSE IF Head(its).volumeid = volumeid
    THEN <<Head(its)>> \o OfVolume(Tail(its), volumeid)
    ELSE OfVolume(Tail(its), volumeid)

\* The lines list_books prints after its two header lines.
RECURSIVE BookLines(_, _)
BookLines(bs, i) ==
    IF bs = <<>> THEN <<>>
    ELSE LET author == Take(IF Truthy(Head(bs).author) THEN Head(bs).author[1]
                            ELSE <<"U", "n", "k", "n", "o", "w", "n">>, 30)
         IN  PadRight(IntStr(i), 4) \o <<" ">> \o PadRight(author, 30) \o <<" ">>
             \o StrOf(Head(bs).title) \o <<"\n">> \o BookLines(Tail(bs), i + 1)

\* The default emoji labels of colors 0-3, one fragment each.
DefaultColors == << <<"yellow">>, <<"red">>, <<"blue">>, <<"green">> >>

\* colors = [c.strip() for c in args.colors.split(',')]
ColorsOption(s) == [i \in 1..Len(Split(s)) |-> Strip(Split(s)[i])]

(* ------------------------------- actions ------------------------------- *)

\* sys.exit(code), or falling off the end of main() with code 0
Exit(code) == pc' = "exit" /\ exit_code' = Some(code)

export_vars == <<book, items, chapters, sorted_chapters, output>>

\* ParseArgs with a usage check that wants exactly one of --list, --bookid.
ParseArgsExactlyOne ==
    /\ pc = "main"
    /\ IF argv.list = (argv.bookid # Null)
       THEN /\ stdout' = stdout \o <<"usage: export-kobo.py [-h] ...\n">>
            /\ Exit(1)
            /\ UNCHANGED <<colors, query>>
       ELSE /\ colors' = IF argv.no_colors THEN Null
                         ELSE IF Truthy(argv.colors)
                         THEN Some(ColorsOption(argv.colors[1]))
                         ELSE Some(DefaultColors)
            /\ query' = "version"
            /\ pc' = "connect"
            /\ UNCHANGED <<stdout, exit_code>>
    /\ UNCHANGED <<argv, db, conn, data, db_version, books, stderr>>
    /\ UNCHANGED export_vars

\* main, lines 180-192: the usage check and the colors option
ParseArgs ==
    /\ pc = "main"
    /\ IF ~argv.list /\ argv.bookid = Null
       THEN /\ stdout' = stdout \o <<"usage: export-kobo.py [-h] ...\n">>
            /\ Exit(1)
            /\ UNCHANGED <<colors, query>>
       ELSE /\ colors' = IF argv.no_colors THEN Null
                         ELSE IF Truthy(argv.colors)
                         THEN Some(ColorsOption(argv.colors[1]))
                         ELSE Some(DefaultColors)
            /\ query' = "version"
            /\ pc' = "connect"
            /\ UNCHANGED <<stdout, exit_code>>
    /\ UNCHANGED <<argv, db, conn, data, db_version, books, stderr>>
    /\ UNCHANGED export_vars

\* _query, lines 108-109 and 116-118: sqlite3.connect raised (the path is
\* there but cannot be opened); no connection was made
ConnectError ==
    /\ pc = "connect"
    /\ db.exists
    /\ stderr' = stderr \o <<"Error reading database: ", "unable to open database file", "\n">>
    /\ Exit(1)
    /\ UNCHANGED <<argv, db, query, conn, data, colors, db_version, books, stdout>>
    /\ UNCHANGED export_vars

\* _query, lines 105-109: the existence check, then sqlite3.connect
QueryConnect ==
    /\ pc = "connect"
    /\ IF ~db.exists
       THEN /\ stderr' = stderr \o <<"Error: Cannot read ", argv.db, "\n">>
            /\ Exit(1)
            /\ UNCHANGED conn
       ELSE /\ conn' = conn + 1
            /\ pc' = "execute"
            /\ UNCHANGED <<stderr, exit_code>>
    /\ UNCHANGED <<argv, db, query, data, colors, db_version, books, stdout>>
    /\ UNCHANGED export_vars

\* The results the store may give to the running query.
QueryResults ==
    CASE query = "version" -> QUERY_DB_VERSION
      [] query = "books" -> QUERY_BOOKS
      [] query = "items_v175" -> QUERY_ITEMS_V175
      [] query = "items_v174" -> QUERY_ITEMS_V174

\* _query, lines 110-115: execute, fetchall, close, return
QueryFetch ==
    /\ pc = "execute"
    /\ \E result \in QueryResults : data' = Some(result)
    /\ conn' = conn - 1
    /\ pc' = "return"
    /\ UNCHANGED <<argv, db, query, colors, db_version, books, stdout, stderr,
                   exit_code>>
    /\ UNCHANGED export_vars

\* _query, lines 116-118: execute or fetchall raised
QueryError ==
    /\ pc = "execute"
    /\ stderr' = stderr \o <<"Error reading database: ", query, "\n">>
    /\ Exit(1)
    /\ UNCHANGED <<argv, db, query, conn, data, colors, db_version, books, stdout>>
    /\ UNCHANGED export_vars

\* _get_db_version, then __init__ goes on to _load_books
GetDbVersion ==
    /\ pc = "return" /\ query = "version"
    /\ IF data[1] = <<>>
       THEN \* result[0] raises IndexError: the traceback, and exit code 1
            /\ stderr' = stderr \o <<"Traceback (most recent call last):\n", "IndexError">>
            /\ Exit(1)
            /\ UNCHANGED <<db_version, query>>
       ELSE /\ db_version' = Some(data[1][1][1][1])
            /\ query' = "books"
            /\ pc' = "connect"
            /\ UNCHANGED <<stderr, exit_code>>
    /\ UNCHANGED <<argv, db, conn, data, colors, books, stdout>>
    /\ UNCHANGED export_vars

\* _load_books
LoadBooks ==
    /\ pc = "return" /\ query = "books"
    /\ books' = Some([i \in 1..Len(data[1]) |-> Book(data[1][i])])
    /\ query' = ""
    /\ pc' = "dispatch"
    /\ UNCHANGED <<argv, db, conn, data, colors, db_version, stdout, stderr,
                   exit_code>>
    /\ UNCHANGED export_vars

\* main, lines 194-195, and list_books
ListBooks ==
    /\ pc = "dispatch"
    /\ argv.list
    /\ stdout' = stdout
                 \o <<"ID   AUTHOR                         TITLE\n">>
                 \o [k \in 1..80 |-> "-"] \o <<"\n">>
                 \o BookLines(books[1], 1)
    /\ Exit(0)
    /\ UNCHANGED <<argv, db, query, conn, data, colors, db_version, books, stderr>>
    /\ UNCHANGED export_vars

\* main, line 196: "elif args.bookid:" is false for --bookid 0
NoCommand ==
    /\ pc = "dispatch"
    /\ ~argv.list
    /\ argv.bookid = Some(0)
    /\ Exit(0)
    /\ UNCHANGED <<argv, db, query, conn, data, colors, db_version, books, stdout,
                   stderr>>
    /\ UNCHANGED export_vars

\* SelectBook printing the book's heading at once instead of building output.
SelectBookStreaming ==
    /\ pc = "dispatch"
    /\ ~argv.list
    /\ argv.bookid # Some(0)
    /\ LET book_id == argv.bookid[1] IN
       IF book_id < 1 \/ book_id > Len(books[1])
       THEN /\ stderr' = stderr \o <<"Error: bookid must be between 1 and ">>
                         \o IntStr(Len(books[1])) \o <<"\n">>
            /\ Exit(1)
            /\ UNCHANGED <<book, query, stdout>>
       ELSE /\ book' = Some(books[1][book_id])
            /\ stdout' = stdout \o BookToMarkdown(books[1][book_id])
            /\ query' = IF db_version = Some(175) THEN "items_v175" ELSE "items_v174"
            /\ pc' = "connect"
            /\ UNCHANGED <<stderr, exit_code>>
    /\ UNCHANGED <<argv, db, conn, data, colors, db_version, books>>
    /\ UNCHANGED <<items, chapters, sorted_chapters, output>>

\* export_markdown, lines 137-144: the range check, the book, the query
SelectBook ==
    /\ pc = "dispatch"
    /\ ~argv.list
    /\ argv.bookid # Some(0)
    /\ LET book_id == argv.bookid[1] IN
       IF book_id < 1 \/ book_id > Len(books[1])
       THEN /\ stderr' = stderr \o <<"Error: bookid must be between 1 and ">>
                         \o IntStr(Len(books[1])) \o <<"\n">>
            /\ Exit(1)
            /\ UNCHANGED <<book, query>>
       ELSE /\ book' = Some(books[1][book_id])
            /\ query' = IF db_version = Some(175) THEN "items_v175" ELSE "items_v174"
            /\ pc' = "connect"
            /\ UNCHANGED <<stderr, exit_code>>
    /\ UNCHANGED <<argv, db, conn, data, colors, db_version, books, stdout>>
    /\ UNCHANGED <<items, chapters, sorted_chapters, output>>

\* export_markdown, lines 145-146: the Items of the rows, then the filter
LoadItems ==
    /\ pc = "return" /\ query \in {"items_v175", "items_v174"}
    /\ items' = Some(OfVolume([i \in 1..Len(data[1]) |-> Item(data[1][i])],
                              book[1].volumeid))
    /\ query' = ""
    /\ pc' = "group"
    /\ UNCHANGED <<argv, db, conn, data, colors, db_version, books, stdout, stderr,
                   exit_code>>
    /\ UNCHANGED <<book, chapters, sorted_chapters, output>>

\* export_markdown, lines 149-153
GroupItems ==
    /\ pc = "group"
    /\ chapters' = Some(GroupByChapter(items[1], <<>>))
    /\ pc' = "sort_chapters"
    /\ UNCHANGED <<argv, db, query, conn, data, colors, db_version, books, stdout,
                   stderr, exit_code>>
    /\ UNCHANGED <<book, items, sorted_chapters, output>>

\* export_markdown, line 156
SortChapters ==
    /\ pc = "sort_chapters"
    /\ sorted_chapters' = Some(SortedChapters(chapters[1]))
    /\ pc' = "sort_items"
    /\ UNCHANGED <<argv, db, query, conn, data, colors, db_version, books, stdout,
                   stderr, exit_code>>
    /\ UNCHANGED <<book, items, chapters, output>>

\* export_markdown, lines 159-160
SortItems ==
    /\ pc = "sort_items"
    /\ chapters' = Some([i \in 1..Len(chapters[1]) |->
                           [chapters[1][i] EXCEPT !.items = SortItemsByOffset(@)]])
    /\ pc' = "render"
    /\ UNCHANGED <<argv, db, query, conn, data, colors, db_version, books, stdout,
                   stderr, exit_code>>
    /\ UNCHANGED <<book, items, sorted_chapters, output>>

\* export_markdown, lines 162-166
Render ==
    /\ pc = "render"
    /\ output' = Some(BookToMarkdown(book[1])
                      \o RenderChapters(sorted_chapters[1], chapters[1],
                                        argv.debug, colors))
    /\ pc' = "print"
    /\ UNCHANGED <<argv, db, query, conn, data, colors, db_version, books, stdout,
                   stderr, exit_code>>
    /\ UNCHANGED <<book, items, chapters, sorted_chapters>>

\* export_markdown, line 168, and the end of main
PrintOutput ==
    /\ pc = "print"
    /\ stdout' = stdout \o output[1] \o <<"\n">>
    /\ Exit(0)
    /\ UNCHANGED <<argv, db, query, conn, data, colors, db_version, books, stderr>>
    /\ UNCHANGED export_vars

Next ==
    \/ ParseArgs \/ QueryConnect \/ ConnectError \/ QueryFetch \/ QueryError \/ GetDbVersion
    \/ LoadBooks \/ ListBooks \/ NoCommand \/ SelectBook \/ LoadItems
    \/ GroupItems \/ SortChapters \/ SortItems \/ Render \/ PrintOutput

(* ------------------------------- stores -------------------------------- *)

\* All strings over the characters cs of length at most n.
RECURSIVE StringsUpTo(_, _)
StringsUpTo(cs, n) ==
    IF n = 0 THEN {<<>>}
    ELSE LET shorter == StringsUpTo(cs, n - 1)
         IN  shorter \cup {Append(s, c) : s \in shorter, c \in cs}

Optional(S) == {Null} \cup {Some(v) : v \in S}

\* The schema versions of the modelled stores.
DbVersions == {174, 175, 176}

\* Identifiers (VolumeID, ContentID) are pairs <<name, number>>.
VolumeIdOf(k) == Some(<<"volume", k>>)

\* Book k's title: "B", "AC", "BC", "ACC", ... so that the title order is not
\* the order of the identifiers.
TitleOf(k) == <<IF k % 2 = 1 THEN "B" ELSE "A">> \o [j \in 1..(k \div 2) |-> "C"]

ContentRow(id, title, attribution, booktitle, volumeindex) ==
    [ContentID |-> id, Title |-> title, Attribution |-> attribution,
     BookTitle |-> booktitle, VolumeIndex |-> volumeindex]

BookmarkRow(id, volumeid, contentid, text, annotation, offset, color) ==
    [BookmarkID |-> Some(id), VolumeID |-> volumeid, ContentID |-> contentid,
     Text |-> text, Annotation |-> annotation, DateCreated |-> Null,
     DateModified |-> Null, ChapterProgress |-> Null, StartOffset |-> offset,
     Color |-> color]

\* content's row of book k; the even books have no author
BookContent(k) ==
    ContentRow(VolumeIdOf(k), Some(TitleOf(k)),
               IF k % 2 = 1 THEN Some(<<"B", "a", "r">>) ELSE Null, Null, Some(-1))

\* The catalog stores: n books, each with one chapter holding a highlight and
\* an annotation, and with one bookmark whose content row is gone.
CatalogStore(n, version, exists) ==
    [exists |-> exists, version |-> version,
     content |-> {BookContent(k) : k \in 1..n}
                 \cup {ContentRow(Some(<<"chapter", k>>), Some(<<"C", "h">>), Null,
                                  Some(TitleOf(k)), Some(k)) : k \in 1..n},
     Bookmark |-> {BookmarkRow(<<k, 1>>, VolumeIdOf(k), Some(<<"chapter", k>>),
                               Some(<<"x">>), Null, Some(k), Some(k)) : k \in 1..n}
                  \cup {BookmarkRow(<<k, 2>>, VolumeIdOf(k), Some(<<"chapter", k>>),
                                    Some(<<"y">>), Some(<<"n">>), Some(0), Null) :
                           k \in 1..n}
                  \cup {BookmarkRow(<<k, 3>>, VolumeIdOf(k), Some(<<"gone", k>>),
                                    Null, Null, Null, Null) : k \in 1..n}]

Argv(list, bookid, debug, cols, no_colors) ==
    [db |-> "KoboReader.sqlite", list |-> list, bookid |-> bookid, debug |-> debug,
     colors |-> cols, no_colors |-> no_colors]

\* What every run starts from, given its command line and its store.
Start(a, d) ==
    /\ argv = a
    /\ db = d
    /\ pc = "main"
    /\ query = ""
    /\ conn = 0
    /\ data = Null
    /\ colors = Null
    /\ db_version = Null
    /\ books = Null
    /\ book = Null
    /\ items = Null
    /\ chapters = Null
    /\ sorted_chapters = Null
    /\ output = Null
    /\ stdout = <<>>
    /\ stderr = <<>>
    /\ exit_code = Null

\* The catalog runs: every combination of --list and --bookid, on stores of
\* 0..MaxBooks books of every version, present or missing.
InitCatalog ==
    \E list \in BOOLEAN, debug \in BOOLEAN, n \in 0..MaxBooks,
       version \in Optional(DbVersions), exists \in BOOLEAN,
       bookid \in {Null} \cup {Some(i) : i \in -1..(MaxBooks + 1)} :
        Start(Argv(list, bookid, debug, Null, FALSE), CatalogStore(n, version, exists))

Init == InitCatalog

Spec == Init /\ [][Next]_vars

\* The item stores: one book whose only bookmark has the given text,
\* annotation and color; "far" moves the row's other columns.
ItemStore(text, annotation, color, far) ==
    [exists |-> TRUE, version |-> Some(174),
     content |-> {BookContent(1),
                  ContentRow(Some(<<"chapter", 1>>), Some(<<"C", "h">>), Null,
                             Some(TitleOf(1)), Some(1))},
     Bookmark |-> {[BookmarkID |-> Some(<<1, 1>>), VolumeID |-> VolumeIdOf(1),
                    ContentID |-> Some(<<IF far THEN "gone" ELSE "chapter", 1>>),
                    Text |-> text, Annotation |-> annotation,
                    DateCreated |-> IF far THEN Some(<<"2", "0", "2", "4">>) ELSE Null,
                    DateModified |-> Null,
                    ChapterProgress |-> IF far THEN Some(<<"0", ".", "5">>) ELSE Null,
                    StartOffset |-> IF far THEN Some(MaxOffset) ELSE Null,
                    Color |-> color]}]

\* The item runs: the export of that book under every colors option.
InitItems ==
    \E text \in Optional(StringsUpTo({" ", "a"}, MaxTextLen)),
       annotation \in Optional({<<>>, <<" ">>, <<"n">>}),
       color \in Optional(-1..MaxColor),
       far \in BOOLEAN,
       cols \in Optional(StringsUpTo({"Y", ",", " "}, MaxColorsLen)),
       no_colors \in BOOLEAN :
        /\ no_colors => cols \in {Null, Some(<<"Y">>)}
        /\ Start(Argv(FALSE, Some(1), FALSE, cols, no_colors),
                 ItemStore(text, annotation, color, far))

SpecItems == (InitCatalog \/ InitItems) /\ [][Next]_vars

\* The content.VolumeIndex values of the ordering stores.
VolumeIndexes == -1..MaxVolumeIndex

ChapterTitles == {"A", "B"}

\* The ordering stores: one book; content has a row for every chapter title at
\* every volume index (so a title may come at several indexes); every
\* bookmark points at one of these rows or at a row that is gone.
OrderStore(version, place, offset) ==
    [exists |-> TRUE, version |-> Some(version),
     content |-> {BookContent(1)}
                 \cup {ContentRow(Some(<<t, vi>>), Some(<<t>>), Null,
                                  Some(TitleOf(1)), Some(vi)) :
                          t \in ChapterTitles, vi \in VolumeIndexes},
     Bookmark |-> {BookmarkRow(<<1, i>>, VolumeIdOf(1), Some(place[i]),
                               Some(IntStr(i)), Null, offset[i], Null) :
                      i \in 1..MaxBookmarks}]

\* The ordering runs: the export of that book.
InitOrder ==
    \E version \in DbVersions,
       place \in [1..MaxBookmarks ->
                     (ChapterTitles \X VolumeIndexes) \cup {<<"gone", 0>>}],
       offset \in [1..MaxBookmarks -> Optional(0..MaxOffset)] :
        Start(Argv(FALSE, Some(1), FALSE, Null, TRUE),
              OrderStore(version, place, offset))

SpecOrder == (InitCatalog \/ InitOrder) /\ [][Next]_vars

(* ------------------------ reading the document ------------------------- *)

\* An export printed its document.
DocumentPrinted == exit_code = Some(0) /\ output # Null

\* The places of standard output where a chapter heading starts.
HeadingPositions == {k \in 1..Len(stdout) : stdout[k] = "\n### "}

\* The end of the heading line that starts at k.
HeadingEnd(k) ==
    CHOOSE m \in (k + 1)..Len(stdout) :
        /\ stdout[m] = "\n\n"
        /\ \A n \in (k + 1)..(m - 1) : stdout[n] # "\n\n"

\* The heading that starts at k, as printed.
HeadingAt(k) == SubSeq(stdout, k + 1, HeadingEnd(k) - 1)

\* What is printed under the heading that starts at k: up to the next
\* heading, or to the newline print() ends the document with.
BodyAt(k) ==
    LET later == {h \in HeadingPositions : h > k}
        stop == IF later = {} THEN Len(stdout)
                ELSE CHOOSE h \in later : \A g \in later : h <= g
    IN  SubSeq(stdout, HeadingEnd(k) + 1, stop - 1)

\* The headings of standard output, in the order printed.
EmittedHeadings ==
    [i \in 1..Cardinality(HeadingPositions) |->
        HeadingAt(CHOOSE k \in HeadingPositions :
                      Cardinality({j \in HeadingPositions : j <= k}) = i)]

\* The items (places in the filtered query result) of the chapter printed as h.
ItemsOfHeading(h) == {i \in 1..Len(items[1]) : StrOf(items[1][i].chapter) = h}

MinVolumeIndex(h) ==
    LET vs == {items[1][i].volume_index : i \in ItemsOfHeading(h)}
    IN  CHOOSE v \in vs : \A w \in vs : v <= w

FirstSeen(h) ==
    CHOOSE i \in ItemsOfHeading(h) : \A j \in ItemsOfHeading(h) : i <= j

\* C1: the chapter headings are printed once per chapter, in non-decreasing
\* order of the least volume_index among the chapter's items, and chapters
\* with the same least volume_index in the order in which the query result
\* first showed them.
C1_ChapterOrder ==
    DocumentPrinted =>
        LET hs == EmittedHeadings
            all == {StrOf(items[1][i].chapter) : i \in 1..Len(items[1])}
        IN  /\ Len(hs) = Cardinality(all)
            /\ {hs[i] : i \in 1..Len(hs)} = all
            /\ \A i, j \in 1..Len(hs) :
                  i < j =>
                     \/ MinVolumeIndex(hs[i]) < MinVolumeIndex(hs[j])
                     \/ /\ MinVolumeIndex(hs[i]) = MinVolumeIndex(hs[j])
                        /\ FirstSeen(hs[i]) < FirstSeen(hs[j])

\* Three chapters are printed, two of them with the same least volume_index,
\* and not in the order the query result showed them.
C1_Witness ==
    /\ DocumentPrinted
    /\ Len(EmittedHeadings) >= 3
    /\ \E i, j \in 1..Len(EmittedHeadings) :
          /\ i < j
          /\ MinVolumeIndex(EmittedHeadings[i]) = MinVolumeIndex(EmittedHeadings[j])
    /\ \E i, j \in 1..Len(EmittedHeadings) :
          /\ i < j
          /\ FirstSeen(EmittedHeadings[i]) > FirstSeen(EmittedHeadings[j])

\* The items of the chapter printed as h in ascending start_offset, items of
\* equal start_offset in the order of the query result.
InOffsetOrder(h) ==
    LET S == ItemsOfHeading(h)
        p == CHOOSE q \in [1..Cardinality(S) -> S] :
                 \A a, b \in 1..Cardinality(S) :
                    a < b =>
                       \/ items[1][q[a]].start_offset < items[1][q[b]].start_offset
                       \/ /\ items[1][q[a]].start_offset = items[1][q[b]].start_offset
                          /\ q[a] < q[b]
    IN  [a \in 1..Cardinality(S) |-> items[1][p[a]]]

\* C2: under every chapter heading the chapter's items are printed in
\* non-decreasing start_offset, and items of equal start_offset in the
\* order they had in the query result.
C2_ItemOrder ==
    DocumentPrinted =>
        \A k \in HeadingPositions :
            BodyAt(k) = RenderItems(InOffsetOrder(HeadingAt(k)), argv.debug, colors)

\* A chapter is printed whose items the query result gave in another order
\* than ascending start_offset, two of them with the same start_offset.
C2_Witness ==
    /\ DocumentPrinted
    /\ \E k \in HeadingPositions :
          LET S == ItemsOfHeading(HeadingAt(k)) IN
          /\ \E a, b \in S :
                a < b /\ items[1][a].start_offset > items[1][b].start_offset
          /\ \E a, b \in S :
                /\ a < b
                /\ items[1][a].start_offset = items[1][b].start_offset
                /\ items[1][a] # items[1][b]

\* The items in the order export_markdown renders them.
RECURSIVE ItemsInOrder(_, _)
ItemsInOrder(keys, d) ==
    IF keys = <<>> THEN <<>>
    ELSE Lookup(d, Head(keys)) \o ItemsInOrder(Tail(keys), d)

RenderedItems == ItemsInOrder(sorted_chapters[1], chapters[1])

\* C10, as claimed: the rendered items are in non-decreasing volume_index,
\* and items of equal volume_index in non-decreasing start_offset.
C10_ReadingOrder ==
    DocumentPrinted =>
        \A i, j \in 1..Len(RenderedItems) :
            i < j =>
               \/ RenderedItems[i].volume_index < RenderedItems[j].volume_index
               \/ /\ RenderedItems[i].volume_index = RenderedItems[j].volume_index
                  /\ RenderedItems[i].start_offset <= RenderedItems[j].start_offset

\* C10, amended: every item of the book is rendered; the rendered items are
\* in non-decreasing order of the least volume_index of their chapter, and
\* the items of one chapter in non-decreasing start_offset.
C10_ChapterThenOffset ==
    DocumentPrinted =>
        /\ Len(RenderedItems) = Len(items[1])
        /\ \A i \in 1..Len(items[1]) :
              Cardinality({j \in 1..Len(items[1]) : items[1][j] = items[1][i]})
              = Cardinality({j \in 1..Len(RenderedItems) :
                                RenderedItems[j] = items[1][i]})
        /\ \A i, j \in 1..Len(RenderedItems) :
              i < j =>
                 /\ MinVolumeIndex(StrOf(RenderedItems[i].chapter))
                    <= MinVolumeIndex(StrOf(RenderedItems[j].chapter))
                 /\ RenderedItems[i].chapter = RenderedItems[j].chapter
                    => RenderedItems[i].start_offset <= RenderedItems[j].start_offset

\* A document is printed in which one chapter title holds items of two
\* volume indexes and another chapter lies between them.
C10_Witness ==
    /\ DocumentPrinted
    /\ \E i, j, k \in 1..Len(RenderedItems) :
          /\ RenderedItems[i].chapter = RenderedItems[j].chapter
          /\ RenderedItems[k].chapter # RenderedItems[i].chapter
          /\ RenderedItems[i].volume_index < RenderedItems[k].volume_index
          /\ RenderedItems[k].volume_index < RenderedItems[j].volume_index

(* ------------------------------ the joins ------------------------------ *)

\* The bookmarks of the selected book.
SelectedBookmarks == {b \in db.Bookmark : b.VolumeID = book[1].volumeid}

\* b's ContentID has no content row.
Dangling(b) == \A c \in db.content : c.ContentID # b.ContentID

\* The text.strip() of a Bookmark row; the stores give the bookmarks of one
\* book distinct texts, so the text tells which bookmark an Item was made of.
TrimmedText(b) == IF Truthy(b.Text) THEN Some(Strip(b.Text[1])) ELSE Null

Contains(s, t) ==
    \E m \in 0..(Len(s) - Len(t)) : SubSeq(s, m + 1, m + Len(t)) = t

\* C4: under version 175 a bookmark of the selected book whose ContentID has
\* no content row gives no Item; under every other version it gives an Item
\* with no chapter and volume_index 0, which is grouped under the None key
\* and rendered under the "None" heading.
C4_JoinByVersion ==
    items # Null =>
        \A b \in SelectedBookmarks :
            Dangling(b) =>
                LET made == {i \in 1..Len(items[1]) : items[1][i].text = TrimmedText(b)}
                IN  IF db.version = Some(175) THEN made = {}
                    ELSE /\ made # {}
                         /\ \A i \in made :
                               /\ items[1][i].chapter = Null
                               /\ items[1][i].volume_index = 0
                               /\ chapters # Null =>
                                     \E e \in 1..Len(chapters[1]) :
                                        /\ chapters[1][e].key = Null
                                        /\ \E x \in 1..Len(chapters[1][e].items) :
                                              chapters[1][e].items[x] = items[1][i]
                               /\ DocumentPrinted =>
                                     \E k \in HeadingPositions :
                                        /\ HeadingAt(k) = <<"None">>
                                        /\ Contains(BodyAt(k),
                                                    Markdown(items[1][i], argv.debug, colors))

\* A document is printed, under a version other than 175, with a highlight
\* whose content row is gone under the "None" heading, after a chapter.
C4_Witness ==
    /\ DocumentPrinted
    /\ db.version # Some(175)
    /\ \E b \in SelectedBookmarks : Dangling(b) /\ Truthy(b.Text)
    /\ \E k \in HeadingPositions :
          /\ HeadingAt(k) = <<"None">>
          /\ BodyAt(k) # <<>>
          /\ \E h \in HeadingPositions : h < k

(* ------------------------------ the items ------------------------------ *)

\* The text of a row is not empty after trimming: it has a character that
\* is not white space.
TextPresent(raw) == raw # Null /\ \E k \in 1..Len(raw[1]) : raw[1][k] # " "

AnnotationPresent(raw) == raw # Null /\ Len(raw[1]) > 0

KindRule(raw_text, raw_annotation) ==
    CASE TextPresent(raw_text) /\ AnnotationPresent(raw_annotation) -> "annotation"
      [] TextPresent(raw_text) /\ ~AnnotationPresent(raw_annotation) -> "highlight"
      [] OTHER -> "bookmark"

\* The rows of the items query that belong to the selected book.
SelectedRows == SelectSeq(data[1], LAMBDA r : r[1] = book[1].volumeid)

\* C3: the kind of every Item is the one the text and the annotation of its
\* row give: annotation when both are present, highlight when only the text
\* is, bookmark otherwise, whatever the other columns hold.
C3_KindRule ==
    items # Null =>
        /\ Len(items[1]) = Len(SelectedRows)
        /\ \A i \in 1..Len(items[1]) :
              items[1][i].kind = KindRule(SelectedRows[i][2], SelectedRows[i][3])

\* An Item was made of a row whose text is white space only and whose
\* annotation is present, and of a row with color and offset set.
C3_Witness ==
    /\ items # Null
    /\ Len(items[1]) = 1
    /\ SelectedRows[1][2] = Some(<<" ", " ">>)
    /\ SelectedRows[1][3] = Some(<<"n">>)
    /\ SelectedRows[1][11] # Null
    /\ items[1][1].kind = "bookmark"

\* The rendered items that print a quoted line.
QuotedItems == SelectSeq(RenderedItems, LAMBDA it : it.kind # BOOKMARK)

\* The places of standard output where a quoted line starts, in order.
QuotePositions == {k \in 1..Len(stdout) : stdout[k] = "> "}

QuoteAt(i) ==
    CHOOSE k \in QuotePositions : Cardinality({j \in QuotePositions : j <= k}) = i

\* What follows the "> " of the i-th quoted line.
AfterQuote(i) == SubSeq(stdout, QuoteAt(i) + 1, Len(stdout))

StartsWith(s, t) == Len(t) <= Len(s) /\ SubSeq(s, 1, Len(t)) = t

\* The text of a quoted line ends where a fragment that starts a new line
\* follows it.
EndsLine(s, n) ==
    Len(s) > n /\ s[n + 1] \in {"\n\n", "\n\n- ", "\n>\n> **Debug:** kind="}

\* C9: every quoted line starts with colors[color] and one space exactly when
\* colors is not null and 0 <= color < len(colors); otherwise the text
\* follows the "> " at once.
C9_ColorPrefix ==
    DocumentPrinted =>
        /\ Cardinality(QuotePositions) = Len(QuotedItems)
        /\ \A i \in 1..Len(QuotedItems) :
              LET it == QuotedItems[i]
                  text == it.text[1]
                  valid == /\ colors # Null
                           /\ 0 <= it.color
                           /\ it.color < Len(colors[1])
                  plain == /\ StartsWith(AfterQuote(i), text)
                           /\ EndsLine(AfterQuote(i), Len(text))
              IN  IF valid
                  THEN LET label == colors[1][it.color + 1] IN
                       /\ StartsWith(AfterQuote(i), label \o <<" ">> \o text)
                       /\ EndsLine(AfterQuote(i), Len(label) + 1 + Len(text))
                       /\ ~plain
                  ELSE plain

\* A line was printed without prefix for a negative color under a --colors
\* list, which a color of 0 would have prefixed.
C9_Witness ==
    /\ DocumentPrinted
    /\ argv.colors # Null
    /\ colors # Null
    /\ Len(QuotedItems) = 1
    /\ QuotedItems[1].color < 0
    /\ StartsWith(AfterQuote(1), QuotedItems[1].text[1])

(* ----------------------------- the command ----------------------------- *)

\* The store could not be read: it is missing, a query failed or the version
\* table is empty.
StoreFailed ==
    /\ stderr # <<>>
    /\ stderr[1] \in {"Error: Cannot read ", "Error reading database: ",
                     "Traceback (most recent call last):\n"}

\* The out-of-range failure: the diagnostic naming 1..count, exit code 1 and
\* nothing on standard output.
OutOfRangeFailure(count) ==
    /\ stderr = <<"Error: bookid must be between 1 and ">> \o IntStr(count) \o <<"\n">>
    /\ exit_code = Some(1)
    /\ stdout = <<>>

\* C5, as claimed: an invocation with --bookid N and without --list on a
\* readable store ends in the out-of-range failure exactly when N < 1 or
\* N > count, and otherwise prints the document of the N-th book.
C5_OutOfRangeExactly ==
    (pc = "exit" /\ ~argv.list /\ argv.bookid # Null /\ ~StoreFailed) =>
        LET N == argv.bookid[1]
            count == Len(books[1])
        IN  IF N < 1 \/ N > count
            THEN OutOfRangeFailure(count)
            ELSE /\ ~OutOfRangeFailure(count)
                 /\ exit_code = Some(0)
                 /\ StartsWith(stdout, BookToMarkdown(books[1][N]))

UsageFailure ==
    stdout = <<"usage: export-kobo.py [-h] ...\n">> /\ exit_code = Some(1)

\* C6, as claimed: the run prints usage and fails unless exactly one of
\* --list and --bookid is given.
C6_ExactlyOne ==
    (pc = "exit" /\ ~StoreFailed) =>
        (UsageFailure <=> ~(argv.list # (argv.bookid # Null)))

\* C6, amended: the run prints usage and fails exactly when neither --list
\* nor --bookid is given; given both, it lists the books and ignores --bookid.
C6_UsageIffNeither ==
    pc = "exit" =>
        /\ UsageFailure <=> (~argv.list /\ argv.bookid = Null)
        /\ (argv.list /\ argv.bookid # Null /\ stderr = <<>>) =>
              /\ exit_code = Some(0)
              /\ book = Null
              /\ StartsWith(stdout, <<"ID   AUTHOR                         TITLE\n">>)

\* A run with --list and --bookid listed the books.
C6_Witness ==
    /\ pc = "exit"
    /\ argv.list /\ argv.bookid # Null
    /\ exit_code = Some(0)
    /\ Len(stdout) > 82

\* C7, as claimed: no connection is open once _query is left, on any path,
\* nor when the process exits.
C7_ConnectionReleased == pc # "execute" => conn = 0

\* C8: in a run with --bookid and without --list, standard output holds
\* nothing until the version, the books, the selected book, the items, the
\* groups, the chapter order and the document are there, and then holds the
\* whole document; and a run that printed a diagnostic printed nothing on
\* standard output and exits with code 1.
C8_NoPartialOutput ==
    /\ (~argv.list /\ argv.bookid # Null /\ stdout # <<>>) =>
          /\ db_version # Null /\ books # Null /\ book # Null /\ items # Null
          /\ chapters # Null /\ sorted_chapters # Null /\ output # Null
          /\ pc = "exit" /\ exit_code = Some(0)
          /\ stdout = output[1] \o <<"\n">>
    /\ stderr # <<>> => stdout = <<>> /\ pc = "exit" /\ exit_code = Some(1)

\* An export failed at the items query, after the book was selected, with
\* nothing on standard output.
C8_Witness ==
    /\ pc = "exit"
    /\ ~argv.list
    /\ book # Null
    /\ query \in {"items_v174", "items_v175"}
    /\ StoreFailed
    /\ stdout = <<>>
    /\ exit_code = Some(1)

=============================================================================
